---- MODULE Spec2Model ----
(***************************************************************************)
(* Model of immich_duplicates_en.py (immich_duplicates_fr.py is the same   *)
(* program with French messages): the duplicate-group resolution, the      *)
(* metadata strip/transfer calls and the confirm / bulk deletion control   *)
(* flow.  Network calls are recorded in the log `calls`; the server's      *)
(* answer to each call is chosen by the environment.                       *)
(***************************************************************************)
EXTENDS Integers, Sequences, FiniteSets, TLC

(***************************************************************************)
(* Bounds of the model.                                                    *)
(***************************************************************************)
MaxGroups == 2
MaxAssets == 3
MaxBatchSize == 2
MaxFailures == 1

(***************************************************************************)
(* JSON values: null, numbers, strings (strings are sequences of           *)
(* characters so that strip(), lower() and endswith() are computed).       *)
(***************************************************************************)
None == [t |-> "none"]
Num(n) == [t |-> "num", v |-> n]
Str(s) == [t |-> "str", v |-> s]

IsNone(x) == x.t = "none"
IsStr(x) == x.t = "str"

\* str.lower(), on the characters the model uses
LowerChar(c) ==
    CASE c = "H" -> "h"
      [] c = "E" -> "e"
      [] c = "I" -> "i"
      [] c = "C" -> "c"
      [] c = "N" -> "n"
      [] c = "O" -> "o"
      [] c = "Y" -> "y"
      [] OTHER -> c

lower(s) == [k \in 1..Len(s) |-> LowerChar(s[k])]

IsSpace(c) == c \in {" ", "\t", "\n"}

RECURSIVE lstrip(_)
lstrip(s) == IF s # <<>> /\ IsSpace(Head(s)) THEN lstrip(Tail(s)) ELSE s

RECURSIVE rstrip(_)
rstrip(s) ==
    IF s # <<>> /\ IsSpace(s[Len(s)]) THEN rstrip(SubSeq(s, 1, Len(s) - 1)) ELSE s

\* str.strip()
strip(s) == rstrip(lstrip(s))

\* str.endswith(suffix)
endswith(s, suffix) ==
    /\ Len(s) >= Len(suffix)
    /\ SubSeq(s, Len(s) - Len(suffix) + 1, Len(s)) = suffix

(***************************************************************************)
(* The environment: a variable is unset (None) or holds a string.          *)
(***************************************************************************)
EnvValues ==
    {None, Str(<<"t", "r", "u", "e">>), Str(<<"O", "n">>), Str(<<"1">>), Str(<<"0">>),
     Str(<<"n", "o">>), Str(<<>>)}

\* get_env_bool(name, default), val being os.environ.get(name)
get_env_bool(val, default) ==
    IF IsNone(val) THEN default
    ELSE lower(val.v) \in {<<"t", "r", "u", "e">>, <<"1">>, <<"y", "e", "s">>, <<"o", "n">>}

(***************************************************************************)
(* datetime.fromisoformat, in miniature: a date string is four digits (a   *)
(* year), optionally followed by "+", which stands for a UTC offset such   *)
(* as +00:00; anything else raises ValueError.  A datetime is its year and *)
(* whether it is aware (carries an offset).  datetime.max is the naive     *)
(* datetime of year 9999.                                                  *)
(***************************************************************************)
DatetimeMax == 9999

Date(y, aware) == [y |-> y, aware |-> aware]

IsDigit(c) == c \in {"0", "1", "2", "3", "4", "5", "6", "7", "8", "9"}

DigitVal(c) ==
    CASE c = "0" -> 0 [] c = "1" -> 1 [] c = "2" -> 2 [] c = "3" -> 3
      [] c = "4" -> 4 [] c = "5" -> 5 [] c = "6" -> 6 [] c = "7" -> 7
      [] c = "8" -> 8 [] c = "9" -> 9

IsIsoFormat(s) ==
    /\ Len(s) \in {4, 5}
    /\ \A k \in 1..4 : IsDigit(s[k])
    /\ Len(s) = 5 => s[5] = "+"

fromisoformat(s) ==
    Date(1000 * DigitVal(s[1]) + 100 * DigitVal(s[2]) + 10 * DigitVal(s[3])
            + DigitVal(s[4]),
         Len(s) = 5)

(***************************************************************************)
(* Assets.  exifInfo is a dictionary over ExifKeys (a key that is absent   *)
(* and a key whose value is null read the same through dict.get);  tags is *)
(* the list of tag ids of the asset's tag records ("" : a tag record       *)
(* without id); albums is the server's answer to GET /api/albums?assetId.  *)
(***************************************************************************)
TransferKeys == <<"latitude", "longitude", "description", "dateTimeOriginal", "rating">>

ExifKeys == {"latitude", "longitude", "description", "dateTimeOriginal", "rating",
             "fileSizeInByte"}

Asset(id, name, exif, tags, albums) ==
    [id |-> id, originalFileName |-> name, exifInfo |-> exif, tags |-> tags,
     albums |-> albums]

\* the exif_count of get_asset_info: values that are not None and, if strings,
\* not blank
CountsAsExif(v) == ~IsNone(v) /\ (~IsStr(v) \/ strip(v.v) # <<>>)

\* get_asset_info with the extension compared as it is spelled
get_asset_info_CaseSensitive(asset) ==
    LET exif == asset.exifInfo
        dto == exif["dateTimeOriginal"]
        date == IF IsStr(dto) /\ IsIsoFormat(dto.v) THEN fromisoformat(dto.v)
                ELSE Date(DatetimeMax, FALSE)
        is_heic == IF endswith(asset.originalFileName, <<".", "h", "e", "i", "c">>)
                   THEN 1 ELSE 0
        size == exif["fileSizeInByte"]
        exif_count == Cardinality({k \in ExifKeys : CountsAsExif(exif[k])})
    IN  <<date, is_heic, size, exif_count>>

\* get_asset_info(asset) = (date, is_heic, size, exif_count)
get_asset_info(asset) ==
    LET exif == asset.exifInfo
        dto == exif["dateTimeOriginal"]
        date == IF IsStr(dto) /\ IsIsoFormat(dto.v) THEN fromisoformat(dto.v)
                ELSE Date(DatetimeMax, FALSE)
        is_heic == IF endswith(lower(asset.originalFileName), <<".", "h", "e", "i", "c">>)
                   THEN 1 ELSE 0
        size == exif["fileSizeInByte"]
        exif_count == Cardinality({k \in ExifKeys : CountsAsExif(exif[k])})
    IN  <<date, is_heic, size, exif_count>>

(***************************************************************************)
(* select_best_asset.  The result is [ok, kept, reason]: kept is the       *)
(* position in `assets` of the asset returned; ok = FALSE stands for the   *)
(* exception the function raises (reason then names it).                   *)
(***************************************************************************)
Selected(k, reason) == [ok |-> TRUE, kept |-> k, reason |-> reason]
Raised(exc) == [ok |-> FALSE, kept |-> 0, reason |-> exc]

SeqRange(s) == {s[k] : k \in 1..Len(s)}

MaxOf(S) == CHOOSE x \in S : \A y \in S : x >= y

\* get_asset_info of each asset of a group
RECURSIVE Infos(_)
Infos(assets) ==
    IF assets = <<>> THEN <<>>
    ELSE <<get_asset_info(Head(assets))>> \o Infos(Tail(assets))

ReasonIdentical == "identical files with the criteria (date, heic, size, exif)"

\* the reason each of the four steps reports
StepReason(c) ==
    CASE c = 1 -> "older"
      [] c = 2 -> "heic extension"
      [] c = 3 -> "larger size"
      [] c = 4 -> "more exif data"

\* min() over dates raises TypeError when an aware datetime meets a naive one
\* ("can't compare offset-naive and offset-aware datetimes"); max() over the
\* sizes of two or more assets raises TypeError when one of them is None
StepRaises(info, remaining, c) ==
    \/ /\ c = 1
       /\ \E j, k \in SeqRange(remaining) : info[j][1].aware # info[k][1].aware
    \/ /\ c = 3
       /\ \E k \in SeqRange(remaining) : IsNone(info[k][3])

\* the value a step keeps: the earliest date, then the greatest heic flag,
\* size and exif count
StepBest(info, remaining, c) ==
    CASE c = 1 -> LET dates == {info[k][1] : k \in SeqRange(remaining)}
                  IN  CHOOSE d \in dates : \A e \in dates : d.y <= e.y
      [] c = 2 -> MaxOf({info[k][2] : k \in SeqRange(remaining)})
      [] c = 3 -> Num(MaxOf({info[k][3].v : k \in SeqRange(remaining)}))
      [] c = 4 -> MaxOf({info[k][4] : k \in SeqRange(remaining)})

\* remaining = [a for a in remaining if get_asset_info(a)[c] == best];
\* info[k] is get_asset_info of the k-th asset of the group
Narrow(info, remaining, c, best) ==
    LET Test(k) == info[k][c] = best
    IN  SelectSeq(remaining, Test)

\* the cascade ending on the last of the remaining assets
RECURSIVE Cascade_KeepsLast(_, _, _, _, _)
Cascade_KeepsLast(info, remaining, length, reason, c) ==
    IF c > 4 THEN Selected(remaining[Len(remaining)], reason)
    ELSE IF StepRaises(info, remaining, c) THEN Raised("TypeError")
    ELSE LET rem == Narrow(info, remaining, c, StepBest(info, remaining, c))
         IN  IF Len(rem) = 1 THEN Selected(rem[1], StepReason(c))
             ELSE IF length # Len(rem)
                  THEN Cascade_KeepsLast(info, rem, Len(rem), StepReason(c), c + 1)
                  ELSE Cascade_KeepsLast(info, rem, length, reason, c + 1)

\* the cascade recording the reason of every step it evaluates
RECURSIVE Cascade_LastEvaluated(_, _, _, _, _)
Cascade_LastEvaluated(info, remaining, length, reason, c) ==
    IF c > 4 THEN Selected(remaining[1], reason)
    ELSE IF StepRaises(info, remaining, c) THEN Raised("TypeError")
    ELSE LET rem == Narrow(info, remaining, c, StepBest(info, remaining, c))
         IN  IF Len(rem) = 1 THEN Selected(rem[1], StepReason(c))
             ELSE Cascade_LastEvaluated(info, rem, Len(rem), StepReason(c), c + 1)

\* steps c..4 of select_best_asset and its final equality (lines 118-159);
\* `remaining` holds positions in the group, length = len(remaining)
RECURSIVE Cascade(_, _, _, _, _)
Cascade(info, remaining, length, reason, c) ==
    IF c > 4 THEN Selected(remaining[1], reason)
    ELSE IF StepRaises(info, remaining, c) THEN Raised("TypeError")
    ELSE LET rem == Narrow(info, remaining, c, StepBest(info, remaining, c))
         IN  IF Len(rem) = 1 THEN Selected(rem[1], StepReason(c))
             ELSE IF length # Len(rem)
                  THEN Cascade(info, rem, Len(rem), StepReason(c), c + 1)
                  ELSE Cascade(info, rem, length, reason, c + 1)

\* select_best_asset(assets); min() of an empty sequence raises ValueError
select_best_asset(assets) ==
    IF assets = <<>> THEN Raised("ValueError")
    ELSE Cascade(Infos(assets), [k \in 1..Len(assets) |-> k], Len(assets),
                 ReasonIdentical, 1)

(***************************************************************************)
(* Network calls.  A call is recorded with its endpoint (op, and the album *)
(* or tag id in its URL), its JSON body and the server's answer (ok: a 2xx *)
(* answer; ~ok: an error status or a RequestException).  `failed` is the   *)
(* set of call slots the environment fails during one handler.             *)
(***************************************************************************)
NoFields == [k \in {} |-> None]

Call(op, ref, ids, tagIds, fields, force, ok) ==
    [op |-> op, ref |-> ref, ids |-> ids, tagIds |-> tagIds, fields |-> fields,
     force |-> force, ok |-> ok]

MutatingOps == {"album_remove", "tag_remove", "album_add", "tag_apply", "field_update"}

RECURSIVE Flatten(_)
Flatten(ss) == IF ss = <<>> THEN <<>> ELSE Head(ss) \o Flatten(Tail(ss))

\* a value counts when it is truthy: neither None, nor 0, nor the empty string
_has_exif_value_Truthy(asset, key) ==
    LET val == asset.exifInfo[key]
    IN  IF IsNone(val) THEN FALSE
        ELSE IF IsStr(val) THEN val.v # <<>>
        ELSE val.v # 0

\* _has_exif_value(asset, key)
_has_exif_value(asset, key) ==
    LET val == asset.exifInfo[key]
    IN  IF IsNone(val) THEN FALSE
        ELSE IF IsStr(val) THEN strip(val.v) # <<>>
        ELSE TRUE

\* the kept asset's own tags are not read
_get_kept_tags_ids_None(kept) == {}

\* _get_kept_tags_ids(kept)
_get_kept_tags_ids(kept) == {t \in SeqRange(kept.tags) : t # ""}

\* the tags loop of remove_kept_metadata: tag records without id are skipped
TagsWithId(tags) ==
    LET Test(t) == t # ""
    IN  SelectSeq(tags, Test)

\* remove_kept_metadata(kept, ...): the calls it issues, in order
remove_kept_metadata(kept, failed) ==
    LET get_ok == <<"strip_get", 0, 0>> \notin failed
        albums == kept.albums
        tags == TagsWithId(kept.tags)
        get == Call("get_albums", "", <<kept.id>>, <<>>, NoFields, FALSE, get_ok)
        album_calls ==
            [k \in 1..Len(albums) |->
                Call("album_remove", albums[k], <<kept.id>>, <<>>, NoFields, FALSE,
                     <<"album_remove", 0, k>> \notin failed)]
        tag_calls ==
            [k \in 1..Len(tags) |->
                Call("tag_remove", tags[k], <<kept.id>>, <<>>, NoFields, FALSE,
                     <<"tag_remove", 0, k>> \notin failed)]
    IN  IF get_ok THEN <<get>> \o album_calls \o tag_calls ELSE <<get>>

\* the album part of transfer_metadata_to_kept for the j-th discarded asset
TransferAlbums(kept, to_del, j, failed) ==
    LET get_ok == <<"transfer_get", j, 0>> \notin failed
        albums == to_del.albums
        get == Call("get_albums", "", <<to_del.id>>, <<>>, NoFields, FALSE, get_ok)
        add_calls ==
            [k \in 1..Len(albums) |->
                Call("album_add", albums[k], <<kept.id>>, <<>>, NoFields, FALSE,
                     <<"album_add", j, k>> \notin failed)]
    IN  IF get_ok THEN <<get>> \o add_calls ELSE <<get>>

\* tags_to_add after the loop over to_delete_assets (lines 254-258)
RECURSIVE TagsToAdd(_, _, _)
TagsToAdd(original_kept_tags, to_delete_assets, tags_to_add) ==
    IF to_delete_assets = <<>> THEN tags_to_add
    ELSE LET to_del == Head(to_delete_assets)
             new == {t \in SeqRange(to_del.tags) :
                        t # "" /\ t \notin original_kept_tags /\ t \notin tags_to_add}
         IN  TagsToAdd(original_kept_tags, Tail(to_delete_assets), tags_to_add \cup new)

RECURSIVE ExifToSet_LastWins(_, _, _)
\* a later discarded asset overrides the value an earlier one queued
ExifToSet_LastWins(kept, to_delete_assets, exif_to_set) ==
    IF to_delete_assets = <<>> THEN exif_to_set
    ELSE LET to_del == Head(to_delete_assets)
             new == {key \in SeqRange(TransferKeys) :
                        /\ _has_exif_value(to_del, key)
                        /\ ~_has_exif_value(kept, key)
                        /\ ~IsNone(to_del.exifInfo[key])}
         IN  ExifToSet_LastWins(kept, Tail(to_delete_assets),
                                [key \in new |-> to_del.exifInfo[key]] @@ exif_to_set)

\* exif_to_set after the loop over to_delete_assets (lines 259-267)
RECURSIVE ExifToSet(_, _, _)
ExifToSet(kept, to_delete_assets, exif_to_set) ==
    IF to_delete_assets = <<>> THEN exif_to_set
    ELSE LET to_del == Head(to_delete_assets)
             new == {key \in SeqRange(TransferKeys) :
                        /\ key \notin DOMAIN exif_to_set
                        /\ _has_exif_value(to_del, key)
                        /\ ~_has_exif_value(kept, key)
                        /\ ~IsNone(to_del.exifInfo[key])}
         IN  ExifToSet(kept, Tail(to_delete_assets),
                       exif_to_set @@ [key \in new |-> to_del.exifInfo[key]])

\* list(tags_to_add): the elements of the set, each once, in some order
RECURSIVE list(_)
list(S) ==
    IF S = {} THEN <<>>
    ELSE LET x == CHOOSE y \in S : TRUE
         IN  <<x>> \o list(S \ {x})

\* transfer_metadata_to_kept(kept, to_delete_assets, ...): the calls it issues
transfer_metadata_to_kept(kept, to_delete_assets, failed) ==
    LET original_kept_tags == _get_kept_tags_ids(kept)
        album_calls ==
            Flatten([j \in 1..Len(to_delete_assets) |->
                        TransferAlbums(kept, to_delete_assets[j], j, failed)])
        new_tag_ids == list(TagsToAdd(original_kept_tags, to_delete_assets, {}))
        exif_to_set == ExifToSet(kept, to_delete_assets, NoFields)
        tag_call ==
            IF new_tag_ids # <<>>
            THEN <<Call("tag_apply", "", <<kept.id>>, new_tag_ids, NoFields, FALSE,
                        <<"tag_apply", 0, 0>> \notin failed)>>
            ELSE <<>>
        exif_call ==
            IF DOMAIN exif_to_set # {}
            THEN <<Call("field_update", "", <<kept.id>>, {}, exif_to_set, FALSE,
                        <<"field_update", 0, 0>> \notin failed)>>
            ELSE <<>>
    IN  album_calls \o tag_call \o exif_call

\* transfer_metadata_to_kept up to the exception of lines 241-245: the answer to the
\* k-th album addition for the j-th discarded asset is an error status whose body the
\* handler cannot read (add_resp.json() or err_info[0].get raises something that is
\* not a RequestException), so the function is left at that call
transfer_until_raise(kept, to_delete_assets, failed, j, k) ==
    Flatten([m \in 1..(j - 1) |-> TransferAlbums(kept, to_delete_assets[m], m, failed)])
    \o SubSeq(TransferAlbums(kept, to_delete_assets[j], j, failed \cup {<<"album_add", j, k>>}),
              1, k + 1)

\* the album additions of a group's transfer: the k-th album of the j-th discarded
\* asset
AlbumAdditions(to_delete_assets) ==
    UNION {{<<"album_add", j, k>> : k \in 1..Len(to_delete_assets[j].albums)} :
                j \in 1..Len(to_delete_assets)}

\* the call slots one group's handlers can use
Slots(kept, to_delete_assets) ==
    {<<"strip_get", 0, 0>>, <<"tag_apply", 0, 0>>, <<"field_update", 0, 0>>,
     <<"delete", 0, 0>>}
    \cup {<<"album_remove", 0, k>> : k \in 1..Len(kept.albums)}
    \cup {<<"tag_remove", 0, k>> : k \in 1..Len(kept.tags)}
    \cup {<<"transfer_get", j, 0>> : j \in 1..Len(to_delete_assets)}
    \cup UNION {{<<"album_add", j, k>> : k \in 1..Len(to_delete_assets[j].albums)} :
                    j \in 1..Len(to_delete_assets)}

RECURSIVE SubsetsUpTo(_, _)
SubsetsUpTo(S, n) ==
    IF n = 0 THEN {{}}
    ELSE LET P == SubsetsUpTo(S, n - 1)
         IN  P \cup {p \cup {x} : p \in P, x \in S}

\* the sets of calls the environment may fail during one handler, at most n
FailureSets(slots, n) == SubsetsUpTo(slots, n)

\* the calls of cs the environment failed
Failed(cs) == Cardinality({k \in 1..Len(cs) : ~cs[k].ok})

(***************************************************************************)
(* Inputs: the duplicate groups the server may return and the operator's   *)
(* replies.  Asset ids are unique over the run.                            *)
(***************************************************************************)
Exif(date, size, description) ==
    [k \in ExifKeys |->
        CASE k = "dateTimeOriginal" -> date
          [] k = "fileSizeInByte" -> size
          [] k = "description" -> description
          [] OTHER -> None]

AssetOfKind(kind, id) ==
    CASE kind = "bare" ->
            Asset(id, <<"a", ".", "j", "p", "g">>,
                  Exif(Str(<<"2", "0", "1", "9">>), Num(1), None), <<>>, <<>>)
      [] kind = "rich" ->
            Asset(id, <<"b", ".", "H", "E", "I", "C">>,
                  Exif(Str(<<"2", "0", "2", "0">>), Num(2), Str(<<"x">>)),
                  <<"t1">>, <<"al1">>)
      [] kind = "nosize" ->
            Asset(id, <<"c", ".", "j", "p", "g">>,
                  Exif(None, None, None), <<"t2">>, <<>>)

\* groups of n assets, the r newest (rich) ones first and then bare ones; and
\* the pairs whose last asset has no size
GroupShapes ==
    {[j \in 1..n |-> IF j <= r THEN "rich" ELSE "bare"] : n \in 1..MaxAssets, r \in 1..MaxAssets}
    \cup {<<"bare", "nosize">>, <<"nosize", "nosize">>}

\* the g-th group of a response: asset j of group g has id 10 * g + j
GroupOf(shape, g) == [j \in 1..Len(shape) |-> AssetOfKind(shape[j], 10 * g + j)]

\* the response made of the groups of these shapes
Response(shapes) == [g \in 1..Len(shapes) |-> GroupOf(shapes[g], g)]

\* what the operator may type at the prompt of line 327
Replies == {<<"n">>, <<" ", "N", " ">>, <<>>, <<"n", "o">>}

(***************************************************************************)
(* State.                                                                  *)
(***************************************************************************)
VARIABLES
    DRY_RUN, DEFINITELY, ONLY_PAIRS, KEEP_METADATA, TRANSFER_METADATA, CONFIRM,
    DELETE_BATCH_SIZE,   \* configuration (lines 55-62)
    pc,                  \* position of the script
    exit_status,         \* -1 while running, else the process's exit status
    duplicates,          \* the response of GET /api/duplicates
    i,                   \* number of the group of the main loop
    replies,             \* the operator's replies: the answer as typed, the reply
                         \* stripped and lower-cased, and the number of the group
    ids_to_delete,
    processed_groups,
    idx,                 \* index of the bulk metadata loop
    batch_idx,
    failed_batches,
    calls,               \* the calls issued so far, each with its group number
    failures,            \* metadata and per-group delete calls failed so far
    out                  \* the lines printed so far, each with its kind and numbers

config == <<DRY_RUN, DEFINITELY, ONLY_PAIRS, KEEP_METADATA, TRANSFER_METADATA, CONFIRM,
            DELETE_BATCH_SIZE>>

vars == <<DRY_RUN, DEFINITELY, ONLY_PAIRS, KEEP_METADATA, TRANSFER_METADATA, CONFIRM,
          DELETE_BATCH_SIZE, pc, exit_status, duplicates, i, replies, ids_to_delete,
          processed_groups, idx, batch_idx, failed_batches, calls, failures, out>>

Line(kind, g, n) == [kind |-> kind, g |-> g, n |-> n]

Logged(g, cs) == [k \in 1..Len(cs) |-> [g |-> g, c |-> cs[k]]]

Ids(assets) == [k \in 1..Len(assets) |-> assets[k].id]

\* lines 58-59: the two flags of the metadata as read from the environment
KEEP_METADATA_from(val) == get_env_bool(val, TRUE)

TRANSFER_METADATA_from(val) == get_env_bool(val, TRUE)

Init ==
    /\ DRY_RUN \in {get_env_bool(val, TRUE) : val \in EnvValues}
    /\ DEFINITELY \in {get_env_bool(val, FALSE) : val \in EnvValues}
    /\ ONLY_PAIRS \in {get_env_bool(val, FALSE) : val \in EnvValues}
    /\ KEEP_METADATA \in {KEEP_METADATA_from(val) : val \in EnvValues}
    /\ TRANSFER_METADATA \in {TRANSFER_METADATA_from(val) : val \in EnvValues}
    /\ CONFIRM \in {get_env_bool(val, FALSE) : val \in EnvValues}
    /\ DELETE_BATCH_SIZE \in 1..MaxBatchSize
    /\ pc = "fetch"
    /\ exit_status = -1
    /\ duplicates = <<>>
    /\ i = 0
    /\ replies = <<>>
    /\ ids_to_delete = <<>>
    /\ processed_groups = <<>>
    /\ idx = 0
    /\ batch_idx = 0
    /\ failed_batches = 0
    /\ calls = <<>>
    /\ failures = 0
    /\ out = <<>>

(***************************************************************************)
(* Step 1: retrieve the duplicates (lines 86-98).                          *)
(***************************************************************************)
\* the failure is reported and the script goes on with no group
FetchFails_GoesOn ==
    /\ pc = "fetch"
    /\ pc' = "loop"
    /\ out' = Append(out, Line("fetch_error", 0, 0))
    /\ UNCHANGED <<config, exit_status, duplicates, i, replies, ids_to_delete,
                   processed_groups, idx, batch_idx, failed_batches, calls, failures>>

FetchFails ==
    /\ pc = "fetch"
    /\ pc' = "exited"
    /\ exit_status' = 1
    /\ out' = Append(out, Line("fetch_error", 0, 0))
    /\ UNCHANGED <<config, duplicates, i, replies, ids_to_delete, processed_groups, idx,
                   batch_idx, failed_batches, calls, failures>>

Fetch ==
    /\ pc = "fetch"
    /\ \E n \in 0..MaxGroups : \E shapes \in [1..n -> GroupShapes] :
        LET response == Response(shapes)
        IN  /\ duplicates' = response
            /\ IF response = <<>>
               THEN /\ pc' = "exited"
                    /\ exit_status' = 0
                    /\ out' = Append(out, Line("no_duplicates", 0, 0))
               ELSE /\ pc' = "loop"
                    /\ exit_status' = exit_status
                    /\ out' = Append(out, Line("found", 0, Len(response)))
    /\ UNCHANGED <<config, i, replies, ids_to_delete, processed_groups, idx, batch_idx,
                   failed_batches, calls, failures>>

(***************************************************************************)
(* Step 2: one iteration of the loop over the groups (lines 308-355).      *)
(***************************************************************************)
InLoop == pc = "loop" /\ i < Len(duplicates)

\* the group the next iteration handles: lines 309-310
NextAssets == duplicates[i + 1]

\* only the groups larger than a pair are skipped
Admitted_SkipsLargerOnly(assets) == ~(ONLY_PAIRS /\ Len(assets) > 2)

\* lines 311-313
Admitted(assets) == ~(ONLY_PAIRS /\ Len(assets) # 2)

\* every asset but the first of the group
OthersThan_AllButFirst(assets, kept) == Tail(assets)

\* to_delete_assets = [a for a in assets if a['id'] != kept['id']]
OthersThan(assets, kept) ==
    LET Test(a) == a.id # kept.id
    IN  SelectSeq(assets, Test)

\* round(size/1024/1024, 2) raises TypeError on a size that is None (lines 320, 324)
ReportRaises(kept, to_delete_assets) ==
    \/ IsNone(get_asset_info(kept)[3])
    \/ \E k \in 1..Len(to_delete_assets) : IsNone(get_asset_info(to_delete_assets[k])[3])

\* lines 314-324: ok = FALSE when select_best_asset or the report raises
Resolve(assets) ==
    LET sel == select_best_asset(assets)
    IN  IF ~sel.ok
        THEN [ok |-> FALSE, n |-> Len(assets), kept |-> None, reason |-> sel.reason,
              to_delete_assets |-> <<>>]
        ELSE LET kept == assets[sel.kept]
                 to_delete_assets == OthersThan(assets, kept)
             IN  [ok |-> ~ReportRaises(kept, to_delete_assets), n |-> Len(assets),
                  kept |-> kept, reason |-> sel.reason,
                  to_delete_assets |-> to_delete_assets]

\* line 319: the number of the group, its size and the reason of the selector
InfoLine(g, n, reason) == [kind |-> "info", g |-> g, n |-> n, reason |-> reason]

\* the report of lines 319-324
ReportLines(g, r) ==
    <<InfoLine(g, r.n, r.reason), Line("kept", g, r.kept.id)>>
    \o [k \in 1..Len(r.to_delete_assets) |-> Line("deleted", g, r.to_delete_assets[k].id)]

\* the lines of the report printed before the exception of a group that raises:
\* none when select_best_asset raises, else those before the first size of None
CrashLines(g, assets) ==
    LET sel == select_best_asset(assets)
        kept == assets[sel.kept]
        others == OthersThan(assets, kept)
        Sized(a) == ~IsNone(get_asset_info(a)[3])
        printed == {k \in 0..Len(others) : \A j \in 1..k : Sized(others[j])}
        last == CHOOSE k \in printed : \A j \in printed : j <= k
    IN  IF ~sel.ok THEN <<>>
        ELSE <<InfoLine(g, Len(assets), sel.reason)>>
             \o (IF ~Sized(kept) THEN <<>>
                 ELSE <<Line("kept", g, kept.id)>>
                      \o [k \in 1..last |-> Line("deleted", g, others[k].id)])

\* reply = input(...).strip().lower() (line 327)
Prompt(answer) == lower(strip(answer))

\* a reply of no declines, a reply of n does not
Declines_OnNo(reply) == reply = <<"n", "o">>

\* reply == 'n' (line 328)
Declines(reply) == reply = <<"n">>

\* the strip and the transfer whatever the flags
Reconcile_Ungated(kept, to_delete_assets, failed) ==
    remove_kept_metadata(kept, failed)
    \o (IF to_delete_assets # <<>>
        THEN transfer_metadata_to_kept(kept, to_delete_assets, failed)
        ELSE <<>>)

\* transfer, then strip
Reconcile_TransferFirst(kept, to_delete_assets, failed) ==
    (IF TRANSFER_METADATA /\ to_delete_assets # <<>>
     THEN transfer_metadata_to_kept(kept, to_delete_assets, failed)
     ELSE <<>>)
    \o (IF ~KEEP_METADATA THEN remove_kept_metadata(kept, failed) ELSE <<>>)

\* lines 333-336 and 369-372 when the k-th album addition for the j-th discarded asset
\* raises: the strip, then the transfer up to that call
ReconcileUntilRaise(kept, to_delete_assets, failed, j, k) ==
    (IF ~KEEP_METADATA THEN remove_kept_metadata(kept, failed) ELSE <<>>)
    \o transfer_until_raise(kept, to_delete_assets, failed, j, k)

\* lines 333-336 and 369-372: strip, then transfer
Reconcile(kept, to_delete_assets, failed) ==
    (IF ~KEEP_METADATA THEN remove_kept_metadata(kept, failed) ELSE <<>>)
    \o (IF TRANSFER_METADATA /\ to_delete_assets # <<>>
        THEN transfer_metadata_to_kept(kept, to_delete_assets, failed)
        ELSE <<>>)

\* lines 311-313
SkipGroup ==
    /\ InLoop
    /\ ~Admitted(NextAssets)
    /\ i' = i + 1
    /\ out' = Append(out, Line("skipped", i + 1, Len(NextAssets)))
    /\ UNCHANGED <<config, pc, exit_status, duplicates, replies, ids_to_delete,
                   processed_groups, idx, batch_idx, failed_batches, calls, failures>>

\* an uncaught exception in lines 314-324 ends the run with a traceback
CrashGroup ==
    /\ InLoop
    /\ Admitted(NextAssets)
    /\ ~Resolve(NextAssets).ok
    /\ i' = i + 1
    /\ pc' = "crashed"
    /\ exit_status' = 1
    /\ out' = out \o CrashLines(i + 1, NextAssets) \o <<Line("traceback", i + 1, 0)>>
    /\ UNCHANGED <<config, duplicates, replies, ids_to_delete, processed_groups, idx,
                   batch_idx, failed_batches, calls, failures>>

\* lines 326-329: the operator declines
DeclineGroup ==
    /\ InLoop
    /\ CONFIRM
    /\ Admitted(NextAssets)
    /\ LET r == Resolve(NextAssets)
       IN  /\ r.ok
           /\ out' = out \o ReportLines(i + 1, r)
    /\ \E answer \in Replies :
        LET reply == Prompt(answer)
        IN  /\ Declines(reply)
            /\ replies' = Append(replies, [g |-> i + 1, answer |-> answer, reply |-> reply])
    /\ i' = i + 1
    /\ UNCHANGED <<config, pc, exit_status, duplicates, ids_to_delete, processed_groups,
                   idx, batch_idx, failed_batches, calls, failures>>

\* lines 326-331: approved in a dry run
DryRunGroup ==
    /\ InLoop
    /\ CONFIRM
    /\ DRY_RUN
    /\ Admitted(NextAssets)
    /\ LET r == Resolve(NextAssets)
       IN  /\ r.ok
           /\ out' = out \o ReportLines(i + 1, r) \o <<Line("would_process", i + 1, 0)>>
    /\ \E answer \in Replies :
        LET reply == Prompt(answer)
        IN  /\ ~Declines(reply)
            /\ replies' = Append(replies, [g |-> i + 1, answer |-> answer, reply |-> reply])
    /\ i' = i + 1
    /\ UNCHANGED <<config, pc, exit_status, duplicates, ids_to_delete, processed_groups,
                   idx, batch_idx, failed_batches, calls, failures>>

\* lines 326-350: approved, the group is reconciled and deleted at once
ConfirmGroup ==
    /\ InLoop
    /\ CONFIRM
    /\ ~DRY_RUN
    /\ Admitted(NextAssets)
    /\ \E answer \in Replies :
        LET reply == Prompt(answer)
        IN  /\ ~Declines(reply)
            /\ replies' = Append(replies, [g |-> i + 1, answer |-> answer, reply |-> reply])
    /\ LET r == Resolve(NextAssets)
           to_delete_ids == Ids(r.to_delete_assets)
       IN  /\ r.ok
           /\ \E failed \in FailureSets(Slots(r.kept, r.to_delete_assets),
                                      MaxFailures - failures) :
            LET delete_ok == <<"delete", 0, 0>> \notin failed
                delete == Call("delete", "", to_delete_ids, <<>>, NoFields, DEFINITELY,
                               delete_ok)
                issued == Reconcile(r.kept, r.to_delete_assets, failed) \o <<delete>>
            IN  /\ calls' = calls \o Logged(i + 1, issued)
                /\ failures' = failures + Failed(issued)
                /\ out' = out \o ReportLines(i + 1, r)
                              \o <<IF delete_ok
                                   THEN Line("group_success", i + 1, Len(to_delete_ids))
                                   ELSE Line("group_error", i + 1, 0)>>
    /\ i' = i + 1
    /\ UNCHANGED <<config, pc, exit_status, duplicates, ids_to_delete, processed_groups,
                   idx, batch_idx, failed_batches>>

\* lines 326-336 when the transfer raises: the run ends with a traceback before the
\* delete request of the group
ConfirmGroupRaises ==
    /\ InLoop
    /\ CONFIRM
    /\ ~DRY_RUN
    /\ TRANSFER_METADATA
    /\ Admitted(NextAssets)
    /\ failures < MaxFailures
    /\ \E answer \in Replies :
        LET reply == Prompt(answer)
        IN  /\ ~Declines(reply)
            /\ replies' = Append(replies, [g |-> i + 1, answer |-> answer, reply |-> reply])
    /\ LET r == Resolve(NextAssets)
       IN  /\ r.ok
           /\ \E slot \in AlbumAdditions(r.to_delete_assets) :
               \E failed \in FailureSets(Slots(r.kept, r.to_delete_assets) \ {slot},
                                         MaxFailures - failures - 1) :
                LET issued == ReconcileUntilRaise(r.kept, r.to_delete_assets, failed,
                                                  slot[2], slot[3])
                IN  /\ <<"transfer_get", slot[2], 0>> \notin failed
                    /\ calls' = calls \o Logged(i + 1, issued)
                    /\ failures' = failures + Failed(issued)
                    /\ out' = out \o ReportLines(i + 1, r)
                                  \o <<Line("transfer_traceback", i + 1, 0)>>
    /\ i' = i + 1
    /\ pc' = "crashed"
    /\ exit_status' = 1
    /\ UNCHANGED <<config, duplicates, ids_to_delete, processed_groups, idx, batch_idx,
                   failed_batches>>

\* lines 351-355: without confirmation the group joins the plan
QueueGroup ==
    /\ InLoop
    /\ ~CONFIRM
    /\ Admitted(NextAssets)
    /\ LET r == Resolve(NextAssets)
       IN  /\ r.ok
           /\ ids_to_delete' = ids_to_delete \o Ids(r.to_delete_assets)
           /\ processed_groups' = Append(processed_groups,
                    [g |-> i + 1, kept |-> r.kept, to_delete_assets |-> r.to_delete_assets])
           /\ out' = out \o ReportLines(i + 1, r)
    /\ i' = i + 1
    /\ UNCHANGED <<config, pc, exit_status, duplicates, replies, idx, batch_idx,
                   failed_batches, calls, failures>>

(***************************************************************************)
(* Step 3: after the loop (lines 357-398).                                 *)
(***************************************************************************)
LoopDone == pc = "loop" /\ i = Len(duplicates)

\* the dry run prints its notice and falls through to the bulk stage
DryRunExit_FallsThrough ==
    /\ LoopDone
    /\ DRY_RUN
    /\ pc' = "bulk_metadata"
    /\ out' = Append(out, Line("simulation", 0, 0))
    /\ UNCHANGED <<config, exit_status, duplicates, i, replies, ids_to_delete,
                   processed_groups, idx, batch_idx, failed_batches, calls, failures>>

\* lines 358-360
DryRunExit ==
    /\ LoopDone
    /\ DRY_RUN
    /\ pc' = "exited"
    /\ exit_status' = 0
    /\ out' = Append(out, Line("simulation", 0, 0))
    /\ UNCHANGED <<config, duplicates, i, replies, ids_to_delete, processed_groups, idx,
                   batch_idx, failed_batches, calls, failures>>

\* line 362 with CONFIRM set: the script ends
ConfirmEnd ==
    /\ LoopDone
    /\ ~DRY_RUN
    /\ CONFIRM
    /\ pc' = "done"
    /\ exit_status' = 0
    /\ UNCHANGED <<config, duplicates, i, replies, ids_to_delete, processed_groups, idx,
                   batch_idx, failed_batches, calls, failures, out>>

\* lines 362-365
BulkStart ==
    /\ LoopDone
    /\ ~DRY_RUN
    /\ ~CONFIRM
    /\ pc' = "bulk_metadata"
    /\ idx' = 0
    /\ out' = IF Len(processed_groups) > 0
              THEN Append(out, Line("transferring", 0, Len(processed_groups)))
              ELSE out
    /\ UNCHANGED <<config, exit_status, duplicates, i, replies, ids_to_delete,
                   processed_groups, batch_idx, failed_batches, calls, failures>>

\* lines 366-372: one iteration of the metadata loop
BulkMetadata ==
    /\ pc = "bulk_metadata"
    /\ idx < Len(processed_groups)
    /\ LET p == processed_groups[idx + 1]
       IN  \E failed \in FailureSets(Slots(p.kept, p.to_delete_assets) \ {<<"delete", 0, 0>>},
                                      MaxFailures - failures) :
            LET issued == Reconcile(p.kept, p.to_delete_assets, failed)
            IN  /\ calls' = calls \o Logged(p.g, issued)
                /\ failures' = failures + Failed(issued)
    /\ idx' = idx + 1
    /\ UNCHANGED <<config, pc, exit_status, duplicates, i, replies, ids_to_delete,
                   processed_groups, batch_idx, failed_batches, out>>

\* lines 366-372 when the transfer raises: the run ends with a traceback before any
\* delete request
BulkMetadataRaises ==
    /\ pc = "bulk_metadata"
    /\ idx < Len(processed_groups)
    /\ TRANSFER_METADATA
    /\ failures < MaxFailures
    /\ LET p == processed_groups[idx + 1]
       IN  \E slot \in AlbumAdditions(p.to_delete_assets) :
           \E failed \in FailureSets(Slots(p.kept, p.to_delete_assets)
                                        \ {slot, <<"delete", 0, 0>>},
                                     MaxFailures - failures - 1) :
            LET issued == ReconcileUntilRaise(p.kept, p.to_delete_assets, failed,
                                              slot[2], slot[3])
            IN  /\ <<"transfer_get", slot[2], 0>> \notin failed
                /\ calls' = calls \o Logged(p.g, issued)
                /\ failures' = failures + Failed(issued)
                /\ out' = Append(out, Line("transfer_traceback", p.g, 0))
    /\ idx' = idx + 1
    /\ pc' = "crashed"
    /\ exit_status' = 1
    /\ UNCHANGED <<config, duplicates, i, replies, ids_to_delete, processed_groups,
                   batch_idx, failed_batches>>

\* num_batches = (total + DELETE_BATCH_SIZE - 1) // DELETE_BATCH_SIZE
NumBatches(total) == (total + DELETE_BATCH_SIZE - 1) \div DELETE_BATCH_SIZE

\* the deletion starting while groups of the plan are still to be reconciled
BulkDeleteStart_Early ==
    /\ pc = "bulk_metadata"
    /\ pc' = "bulk_delete"
    /\ batch_idx' = 0
    /\ failed_batches' = 0
    /\ out' = Append(out, Line("deleting", NumBatches(Len(ids_to_delete)), Len(ids_to_delete)))
    /\ UNCHANGED <<config, exit_status, duplicates, i, replies, ids_to_delete,
                   processed_groups, idx, calls, failures>>

\* lines 374-378
BulkDeleteStart ==
    /\ pc = "bulk_metadata"
    /\ idx = Len(processed_groups)
    /\ pc' = "bulk_delete"
    /\ batch_idx' = 0
    /\ failed_batches' = 0
    /\ out' = Append(out, Line("deleting", NumBatches(Len(ids_to_delete)), Len(ids_to_delete)))
    /\ UNCHANGED <<config, exit_status, duplicates, i, replies, ids_to_delete,
                   processed_groups, idx, calls, failures>>

\* a slice that starts at the head of the list
Slice_FromStart(s, from, to) == SubSeq(s, 1, IF to < Len(s) THEN to ELSE Len(s))

\* a slice one element short
Slice_OneShort(s, from, to) == SubSeq(s, from + 1, IF to - 1 < Len(s) THEN to - 1 ELSE Len(s))

\* s[from : to]
Slice(s, from, to) == SubSeq(s, from + 1, IF to < Len(s) THEN to ELSE Len(s))

\* a failed batch ends the loop
DeleteBatch_StopsOnFailure ==
    /\ pc = "bulk_delete"
    /\ batch_idx < Len(ids_to_delete)
    /\ LET batch_ids == Slice(ids_to_delete, batch_idx, batch_idx + DELETE_BATCH_SIZE)
           batch_num == batch_idx \div DELETE_BATCH_SIZE + 1
       IN  \E ok \in BOOLEAN :
            /\ calls' = calls \o Logged(0, <<Call("delete", "", batch_ids, <<>>, NoFields,
                                                  DEFINITELY, ok)>>)
            /\ failed_batches' = IF ok THEN failed_batches ELSE failed_batches + 1
            /\ out' = Append(out, IF ok THEN Line("batch_deleted", batch_num, Len(batch_ids))
                                  ELSE Line("batch_failed", batch_num, 0))
            /\ batch_idx' = IF ok THEN batch_idx + DELETE_BATCH_SIZE ELSE Len(ids_to_delete)
    /\ UNCHANGED <<config, pc, exit_status, duplicates, i, replies, ids_to_delete,
                   processed_groups, idx, failures>>

\* lines 379-394: one batch
DeleteBatch ==
    /\ pc = "bulk_delete"
    /\ batch_idx < Len(ids_to_delete)
    /\ LET batch_ids == Slice(ids_to_delete, batch_idx, batch_idx + DELETE_BATCH_SIZE)
           batch_num == batch_idx \div DELETE_BATCH_SIZE + 1
       IN  \E ok \in BOOLEAN :
            /\ calls' = calls \o Logged(0, <<Call("delete", "", batch_ids, <<>>, NoFields,
                                                  DEFINITELY, ok)>>)
            /\ failed_batches' = IF ok THEN failed_batches ELSE failed_batches + 1
            /\ out' = Append(out, IF ok THEN Line("batch_deleted", batch_num, Len(batch_ids))
                                  ELSE Line("batch_failed", batch_num, 0))
    /\ batch_idx' = batch_idx + DELETE_BATCH_SIZE
    /\ UNCHANGED <<config, pc, exit_status, duplicates, i, replies, ids_to_delete,
                   processed_groups, idx, failures>>

\* lines 395-398
BulkEnd ==
    /\ pc = "bulk_delete"
    /\ batch_idx >= Len(ids_to_delete)
    /\ pc' = "done"
    /\ exit_status' = 0
    /\ out' = Append(out, IF failed_batches = 0
                          THEN Line("deletion_complete", 0, Len(ids_to_delete))
                          ELSE Line("deletion_failed", 0, failed_batches))
    /\ UNCHANGED <<config, duplicates, i, replies, ids_to_delete, processed_groups, idx,
                   batch_idx, failed_batches, calls, failures>>

Next ==
    \/ FetchFails
    \/ Fetch
    \/ SkipGroup
    \/ CrashGroup
    \/ DeclineGroup
    \/ DryRunGroup
    \/ ConfirmGroup
    \/ ConfirmGroupRaises
    \/ QueueGroup
    \/ DryRunExit
    \/ ConfirmEnd
    \/ BulkStart
    \/ BulkMetadata
    \/ BulkMetadataRaises
    \/ BulkDeleteStart
    \/ DeleteBatch
    \/ BulkEnd

Spec == Init /\ [][Next]_vars

(***************************************************************************)
(* The transfer of metadata on its own: one group whose assets differ in   *)
(* their description, rating and tags, approved in confirm mode.           *)
(***************************************************************************)
ExifOf(date, description, rating) ==
    [k \in ExifKeys |->
        CASE k = "dateTimeOriginal" -> date
          [] k = "fileSizeInByte" -> Num(1)
          [] k = "description" -> description
          [] k = "rating" -> rating
          [] OTHER -> None]

TransferKinds == {"old", "oldblank", "x", "y", "blank"}

\* "old" and "oldblank" are the oldest; "old" has a rating of 0 and no description,
\* "oldblank" a description of one space and no rating
TransferAsset(kind, id) ==
    CASE kind = "old" ->
            Asset(id, <<"a", ".", "j", "p", "g">>,
                  ExifOf(Str(<<"2", "0", "1", "9">>), None, Num(0)), <<"t1">>, <<>>)
      [] kind = "oldblank" ->
            Asset(id, <<"a", ".", "j", "p", "g">>,
                  ExifOf(Str(<<"2", "0", "1", "9">>), Str(<<" ">>), None), <<>>, <<>>)
      [] kind = "x" ->
            Asset(id, <<"a", ".", "j", "p", "g">>,
                  ExifOf(Str(<<"2", "0", "2", "0">>), Str(<<"x">>), Num(3)),
                  <<"t1", "t2">>, <<"al1">>)
      [] kind = "y" ->
            Asset(id, <<"a", ".", "j", "p", "g">>,
                  ExifOf(Str(<<"2", "0", "2", "0">>), Str(<<"y">>), None),
                  <<"t2", "", "t3">>, <<>>)
      [] kind = "blank" ->
            Asset(id, <<"a", ".", "j", "p", "g">>,
                  ExifOf(Str(<<"2", "0", "2", "0">>), Str(<<" ">>), Num(5)), <<>>, <<>>)

\* the groups of two to MaxAssets assets of these kinds
TransferGroups ==
    UNION {[1..n -> TransferKinds] : n \in 2..MaxAssets}

InitTransfer ==
    /\ DRY_RUN = FALSE
    /\ DEFINITELY = FALSE
    /\ ONLY_PAIRS = FALSE
    /\ KEEP_METADATA \in BOOLEAN
    /\ TRANSFER_METADATA = TRUE
    /\ CONFIRM = TRUE
    /\ DELETE_BATCH_SIZE = 1
    /\ pc = "fetch"
    /\ exit_status = -1
    /\ duplicates = <<>>
    /\ i = 0
    /\ replies = <<>>
    /\ ids_to_delete = <<>>
    /\ processed_groups = <<>>
    /\ idx = 0
    /\ batch_idx = 0
    /\ failed_batches = 0
    /\ calls = <<>>
    /\ failures = 0
    /\ out = <<>>

\* lines 86-98 with a response of one group
FetchGroup ==
    /\ pc = "fetch"
    /\ \E kinds \in TransferGroups :
        duplicates' = <<[j \in 1..Len(kinds) |-> TransferAsset(kinds[j], 10 + j)]>>
    /\ pc' = "loop"
    /\ out' = Append(out, Line("found", 0, 1))
    /\ UNCHANGED <<config, exit_status, i, replies, ids_to_delete, processed_groups, idx,
                   batch_idx, failed_batches, calls, failures>>

NextTransfer ==
    \/ FetchGroup
    \/ ConfirmGroup
    \/ ConfirmGroupRaises
    \/ ConfirmEnd

SpecTransfer == InitTransfer /\ [][NextTransfer]_vars

(***************************************************************************)
(* The selector on its own: a dry run without confirmation over one group  *)
(* whose assets differ in date, extension, size and description, run again *)
(* on the same response.                                                   *)
(***************************************************************************)
MaxRuns == 2

SelectKinds ==
    {"old", "oldheic", "oldheicbig", "oldbig", "oldexif", "oldbigexif", "new", "undated", "baddate",
     "nosize", "heicnosize", "zoned"}

Jpg == <<"a", ".", "j", "p", "g">>
Heic == <<"a", ".", "H", "e", "i", "c">>
Year2019 == Str(<<"2", "0", "1", "9">>)
Year2020 == Str(<<"2", "0", "2", "0">>)

\* "new" is the newest and the best on every later criterion; "undated" has no date
\* and "baddate" one that does not parse; "nosize" and "heicnosize" have no size;
\* the date of "zoned" carries a UTC offset
SelectAsset(kind, id) ==
    CASE kind = "old" -> Asset(id, Jpg, Exif(Year2019, Num(1), None), <<>>, <<>>)
      [] kind = "oldheic" -> Asset(id, Heic, Exif(Year2019, Num(1), None), <<>>, <<>>)
      [] kind = "oldheicbig" -> Asset(id, Heic, Exif(Year2019, Num(2), None), <<>>, <<>>)
      [] kind = "oldbig" -> Asset(id, Jpg, Exif(Year2019, Num(2), None), <<>>, <<>>)
      [] kind = "oldexif" ->
            Asset(id, Jpg, Exif(Year2019, Num(1), Str(<<"x">>)), <<>>, <<>>)
      [] kind = "oldbigexif" ->
            Asset(id, Jpg, Exif(Year2019, Num(2), Str(<<"x">>)), <<>>, <<>>)
      [] kind = "new" -> Asset(id, Heic, Exif(Year2020, Num(2), Str(<<"x">>)), <<>>, <<>>)
      [] kind = "undated" -> Asset(id, Heic, Exif(None, Num(2), Str(<<"x">>)), <<>>, <<>>)
      [] kind = "baddate" ->
            Asset(id, Jpg, Exif(Str(<<"2", "0", "x", "9">>), Num(1), None), <<>>, <<>>)
      [] kind = "nosize" -> Asset(id, Jpg, Exif(Year2019, None, None), <<>>, <<>>)
      [] kind = "heicnosize" -> Asset(id, Heic, Exif(Year2019, None, None), <<>>, <<>>)
      [] kind = "zoned" ->
            Asset(id, Jpg, Exif(Str(<<"2", "0", "1", "9", "+">>), Num(1), None),
                  <<>>, <<>>)

\* the groups of one to MaxAssets assets of these kinds
SelectGroups ==
    UNION {[1..n -> SelectKinds] : n \in 1..MaxAssets}

InitSelect ==
    /\ DRY_RUN = TRUE
    /\ DEFINITELY = FALSE
    /\ ONLY_PAIRS = FALSE
    /\ KEEP_METADATA = TRUE
    /\ TRANSFER_METADATA = TRUE
    /\ CONFIRM = FALSE
    /\ DELETE_BATCH_SIZE = 1
    /\ pc = "fetch"
    /\ exit_status = -1
    /\ duplicates = <<>>
    /\ i = 0
    /\ replies = <<>>
    /\ ids_to_delete = <<>>
    /\ processed_groups = <<>>
    /\ idx = 0
    /\ batch_idx = 0
    /\ failed_batches = 0
    /\ calls = <<>>
    /\ failures = 0
    /\ out = <<>>

\* lines 86-98 with a response of one group
FetchOne ==
    /\ pc = "fetch"
    /\ \E kinds \in SelectGroups :
        duplicates' = <<[j \in 1..Len(kinds) |-> SelectAsset(kinds[j], 10 + j)]>>
    /\ pc' = "loop"
    /\ out' = Append(out, Line("found", 0, 1))
    /\ UNCHANGED <<config, exit_status, i, replies, ids_to_delete, processed_groups, idx,
                   batch_idx, failed_batches, calls, failures>>

\* the runs of the script that ended so far
Runs == Cardinality({k \in 1..Len(out) : out[k].kind = "simulation"})

\* the second run receiving the assets of the group in the opposite order
RunAgain_OtherOrder ==
    /\ pc = "exited"
    /\ duplicates # <<>>
    /\ Runs < MaxRuns
    /\ pc' = "loop"
    /\ exit_status' = -1
    /\ i' = 0
    /\ ids_to_delete' = <<>>
    /\ processed_groups' = <<>>
    /\ duplicates' = [g \in 1..Len(duplicates) |->
                        [k \in 1..Len(duplicates[g]) |->
                            duplicates[g][Len(duplicates[g]) + 1 - k]]]
    /\ out' = Append(out, Line("found", 0, Len(duplicates)))
    /\ UNCHANGED <<config, replies, idx, batch_idx, failed_batches, calls, failures>>

\* the operator starts the script again after a dry run: the server, which no call
\* has changed, answers with the same response (lines 86-98 and 304-307)
RunAgain ==
    /\ pc = "exited"
    /\ duplicates # <<>>
    /\ Runs < MaxRuns
    /\ pc' = "loop"
    /\ exit_status' = -1
    /\ i' = 0
    /\ ids_to_delete' = <<>>
    /\ processed_groups' = <<>>
    /\ out' = Append(out, Line("found", 0, Len(duplicates)))
    /\ UNCHANGED <<config, duplicates, replies, idx, batch_idx, failed_batches, calls,
                   failures>>

NextSelect ==
    \/ FetchOne
    \/ QueueGroup
    \/ CrashGroup
    \/ DryRunExit
    \/ RunAgain

SpecSelect == InitSelect /\ [][NextSelect]_vars

(***************************************************************************)
(* Properties of a run.                                                    *)
(***************************************************************************)
\* the ids of the assets of group g of the response
GroupIds(g) == {duplicates[g][j].id : j \in 1..Len(duplicates[g])}

\* the kinds of the lines that are about one group; their g is the group's number
GroupLineKinds ==
    {"skipped", "info", "kept", "deleted", "traceback", "transfer_traceback",
     "would_process", "group_success", "group_error"}

\* the positions of the lines printed about group g
AboutGroup(g) == {k \in 1..Len(out) : out[k].kind \in GroupLineKinds /\ out[k].g = g}

\* the positions of the lines of this kind printed for group g
LinesOf(kind, g) == {k \in 1..Len(out) : out[k].kind = kind /\ out[k].g = g}

\* group g went through lines 314-324: its report was printed to its end
Resolved(g) == LinesOf("kept", g) # {} /\ LinesOf("traceback", g) = {}

\* the ids the report of group g marked as kept
KeptIds(g) == {out[k].n : k \in LinesOf("kept", g)}

\* the ids the report of group g marked as deleted, in the order of the report
DiscardedIds(g) ==
    LET Test(line) == line.kind = "deleted" /\ line.g = g
        lines == SelectSeq(out, Test)
    IN  [k \in 1..Len(lines) |-> lines[k].n]

\* the ids of group g other than this one, in the order of the group
OtherIds(g, id) ==
    LET Test(x) == x # id
    IN  SelectSeq(Ids(duplicates[g]), Test)

\* the delete requests issued so far, in the order of their issue
DeleteCalls ==
    LET Test(e) == e.c.op = "delete"
    IN  SelectSeq(calls, Test)

\* the calls issued so far that name an asset of group g
CallsOn(g) == {k \in 1..Len(calls) : SeqRange(calls[k].c.ids) \cap GroupIds(g) # {}}

\* the operator answered n at the prompt of group g
Declined(g) == \E k \in 1..Len(replies) : replies[k].g = g /\ replies[k].reply = <<"n">>

RECURSIVE DiscardsUpTo(_)
\* the discarded ids of the resolved groups 1..g, in the order of the groups
DiscardsUpTo(g) ==
    IF g = 0 THEN <<>>
    ELSE DiscardsUpTo(g - 1) \o (IF Resolved(g) THEN DiscardedIds(g) ELSE <<>>)

\* C1: in a dry run no call that removes or adds an album membership, removes or
\* applies a tag, or updates a field is ever issued, and no delete request either.
C1_DryRunIssuesNoChange ==
    DRY_RUN => \A k \in 1..Len(calls) : calls[k].c.op \notin MutatingOps \cup {"delete"}

\* a dry run without confirmation that planned deletions, with removal and transfer
\* of metadata both switched on, and ran to its end
C1_Witness ==
    /\ DRY_RUN
    /\ ~CONFIRM
    /\ ~KEEP_METADATA
    /\ TRANSFER_METADATA
    /\ pc = "exited"
    /\ Len(ids_to_delete) >= 2
    /\ Len(processed_groups) = 2

C3_DeclinedGroupUntouched ==
    CONFIRM =>
        \A g \in 1..Len(duplicates) :
            Declined(g) =>
                /\ CallsOn(g) = {}
                /\ \A k \in 1..Len(calls) : calls[k].g # g
                /\ \A k \in AboutGroup(g) : out[k].kind \in {"info", "kept", "deleted"}
                /\ g <= i
                /\ (g < Len(duplicates) /\ i = g) => pc = "loop"

\* a finished real run in which the operator declined the first group and approved the
\* second, whose assets were then deleted
C3_Witness ==
    /\ CONFIRM
    /\ ~DRY_RUN
    /\ pc = "done"
    /\ Len(duplicates) = 2
    /\ Declined(1)
    /\ ~Declined(2)
    /\ \E k \in 1..Len(DeleteCalls) :
        DeleteCalls[k].g = 2 /\ DeleteCalls[k].c.ok /\ DeleteCalls[k].c.ids # <<>>

\* C4: in pairs-only mode a group whose size is not two is skipped entirely: it is not
\* resolved (no report, no failure of the selector), the operator is not asked about
\* it, none of its ids joins the deletion plan, and no call names one of its assets.
C4_PairsOnlySkipsOtherSizes ==
    ONLY_PAIRS =>
        \A g \in 1..Len(duplicates) :
            Len(duplicates[g]) # 2 =>
                /\ \A k \in AboutGroup(g) : out[k].kind = "skipped"
                /\ \A k \in 1..Len(replies) : replies[k].g # g
                /\ GroupIds(g) \cap SeqRange(ids_to_delete) = {}
                /\ \A k \in 1..Len(processed_groups) : processed_groups[k].g # g
                /\ CallsOn(g) = {}
                /\ \A k \in 1..Len(calls) : calls[k].g # g

\* a finished real run in pairs-only mode over a group of three and a pair: the pair
\* was deleted from
C4_Witness ==
    /\ ONLY_PAIRS
    /\ ~DRY_RUN
    /\ pc = "done"
    /\ Len(duplicates) = 2
    /\ Len(duplicates[1]) = 3
    /\ Len(duplicates[2]) = 2
    /\ LinesOf("skipped", 1) # {}
    /\ \E k \in 1..Len(DeleteCalls) : DeleteCalls[k].c.ok /\ DeleteCalls[k].c.ids = <<21>>

\* C5: when retrieving the duplicates fails the run ends at once with a failure status
\* and no call issued; when the retrieval yields no group the run ends with a success
\* status and no call issued.
C5_FetchFailureAndEmptyResponse ==
    /\ (\E k \in 1..Len(out) : out[k].kind = "fetch_error") =>
        /\ pc = "exited"
        /\ exit_status \notin {0, -1}
        /\ calls = <<>>
        /\ i = 0
        /\ Len(out) = 1
    /\ (\E k \in 1..Len(out) : out[k].kind = "no_duplicates") =>
        /\ pc = "exited"
        /\ exit_status = 0
        /\ calls = <<>>
        /\ i = 0
        /\ Len(out) = 1

\* a real run whose retrieval failed
C5_Witness ==
    /\ ~DRY_RUN
    /\ pc = "exited"
    /\ exit_status = 1
    /\ out = <<Line("fetch_error", 0, 0)>>

(***************************************************************************)
(* Properties of the transfer and of the bulk deletion.                    *)
(***************************************************************************)
\* the value is neither None nor a string of spaces only
HasValue(v) == ~IsNone(v) /\ (IsStr(v) => \E k \in 1..Len(v.v) : v.v[k] # " ")

\* the kept asset of the resolved group g
KeptOf(g) == CHOOSE a \in SeqRange(duplicates[g]) : a.id \in KeptIds(g)

\* the discarded assets of the resolved group g, in the order of the group
DiscardedOf(g) ==
    LET Test(a) == a.id \notin KeptIds(g)
    IN  SelectSeq(duplicates[g], Test)

\* the discarded assets of group g that hold a value for this field
Suppliers(g, key) ==
    LET Test(a) == HasValue(a.exifInfo[key])
    IN  SelectSeq(DiscardedOf(g), Test)

\* the calls to this endpoint issued for group g, in the order of their issue
CallsTo(op, g) ==
    LET Test(e) == e.c.op = op /\ e.g = g
    IN  SelectSeq(calls, Test)

\* the handlers of group g have run: in confirm mode its delete request was issued
Handled(g) == CallsTo("delete", g) # <<>>

\* the ids of the tag records of an asset
TagIdsOf(asset) == {t \in SeqRange(asset.tags) : t # ""}

\* the tags of the discarded assets of group g that its kept asset does not carry
MissingTags(g) ==
    UNION {TagIdsOf(DiscardedOf(g)[j]) : j \in 1..Len(DiscardedOf(g))} \ TagIdsOf(KeptOf(g))

\* C6: a field-update call is addressed to the kept asset of its group and carries no
\* transferable field (latitude, longitude, description, capture timestamp, rating)
\* for which the kept asset holds a value that is present and not blank, whatever the
\* discarded assets hold.
C6_TransferNeverOverwrites ==
    \A k \in 1..Len(calls) :
        calls[k].c.op = "field_update" =>
            /\ calls[k].c.ids = <<KeptOf(calls[k].g).id>>
            /\ \A key \in SeqRange(TransferKeys) :
                HasValue(KeptOf(calls[k].g).exifInfo[key]) =>
                    key \notin DOMAIN calls[k].c.fields

\* a group whose kept asset has a rating of 0 and no description, one of whose
\* discarded assets has a rating and a description: the update carries the
\* description only
C6_Witness ==
    /\ Handled(1)
    /\ KeptOf(1).exifInfo["rating"] = Num(0)
    /\ Suppliers(1, "rating") # <<>>
    /\ Len(CallsTo("field_update", 1)) = 1
    /\ DOMAIN CallsTo("field_update", 1)[1].c.fields = {"description"}

\* C7: for every field the kept asset lacks and some discarded asset of the group
\* holds, the one field-update call of the group carries the value of the first
\* discarded asset, in the order of the group, that holds the field: a later one
\* never overrides it.
C7_FirstDiscardedWins ==
    \A g \in 1..Len(duplicates) :
        (TRANSFER_METADATA /\ Handled(g)) =>
            \A key \in SeqRange(TransferKeys) :
                (~HasValue(KeptOf(g).exifInfo[key]) /\ Suppliers(g, key) # <<>>) =>
                    /\ Len(CallsTo("field_update", g)) = 1
                    /\ key \in DOMAIN CallsTo("field_update", g)[1].c.fields
                    /\ CallsTo("field_update", g)[1].c.fields[key]
                        = Suppliers(g, key)[1].exifInfo[key]

\* a group two of whose discarded assets hold different descriptions, the kept asset
\* holding none: the description of the first was sent
C7_Witness ==
    /\ Handled(1)
    /\ Len(Suppliers(1, "description")) = 2
    /\ Suppliers(1, "description")[1].exifInfo["description"] = Str(<<"y">>)
    /\ Suppliers(1, "description")[2].exifInfo["description"] = Str(<<"x">>)
    /\ Len(CallsTo("field_update", 1)) = 1
    /\ CallsTo("field_update", 1)[1].c.fields["description"] = Str(<<"y">>)

\* C8: for every group, the tag ids of its tag-apply call are exactly the tag ids of
\* its discarded assets that the kept asset did not carry in the response, each once;
\* the call is addressed to the kept asset, and when no such tag exists no tag-apply
\* call is issued.
C8_TagsAppliedAreTheMissingOnes ==
    \A g \in 1..Len(duplicates) :
        (TRANSFER_METADATA /\ Handled(g)) =>
            IF MissingTags(g) = {}
            THEN CallsTo("tag_apply", g) = <<>>
            ELSE /\ Len(CallsTo("tag_apply", g)) = 1
                 /\ CallsTo("tag_apply", g)[1].c.ids = <<KeptOf(g).id>>
                 /\ SeqRange(CallsTo("tag_apply", g)[1].c.tagIds) = MissingTags(g)
                 /\ Len(CallsTo("tag_apply", g)[1].c.tagIds) = Cardinality(MissingTags(g))

\* a group whose kept asset carries t1, two of whose discarded assets carry t2 and one
\* of them t1 as well: t2 and t3 were applied, once each
C8_Witness ==
    /\ Handled(1)
    /\ TagIdsOf(KeptOf(1)) = {"t1"}
    /\ Len(DiscardedOf(1)) = 2
    /\ \A j \in 1..2 : "t2" \in TagIdsOf(DiscardedOf(1)[j])
    /\ \E j \in 1..2 : "t1" \in TagIdsOf(DiscardedOf(1)[j])
    /\ Len(CallsTo("tag_apply", 1)) = 1
    /\ SeqRange(CallsTo("tag_apply", 1)[1].c.tagIds) = {"t2", "t3"}

\* the least number of batches of b ids that hold n ids
CeilDiv(n, b) == CHOOSE q \in 0..n : q * b >= n /\ (q - 1) * b < n

\* the id lists of the delete requests, in the order of their issue
BatchIds == [k \in 1..Len(DeleteCalls) |-> DeleteCalls[k].c.ids]

\* C9: in bulk mode the id lists of the delete requests, concatenated in the order of
\* issue, are at any time a prefix of the deletion list; when the run is done they
\* are the whole list, no id omitted and none sent twice, in exactly
\* ceil(N / B) requests, which is also the number of batches announced.
C9_BatchesCoverThePlan ==
    ~CONFIRM =>
        /\ Len(Flatten(BatchIds)) <= Len(ids_to_delete)
        /\ Flatten(BatchIds) = SubSeq(ids_to_delete, 1, Len(Flatten(BatchIds)))
        /\ pc = "done" =>
            /\ Flatten(BatchIds) = ids_to_delete
            /\ Cardinality(SeqRange(Flatten(BatchIds))) = Len(ids_to_delete)
            /\ Len(DeleteCalls) = CeilDiv(Len(ids_to_delete), DELETE_BATCH_SIZE)
            /\ \A k \in 1..Len(out) :
                out[k].kind = "deleting" => out[k].g = Len(DeleteCalls)

\* a finished bulk run of three ids in batches of two: the last batch is partial
C9_Witness ==
    /\ ~CONFIRM
    /\ pc = "done"
    /\ DELETE_BATCH_SIZE = 2
    /\ Len(ids_to_delete) = 3
    /\ Len(DeleteCalls) = 2
    /\ Len(DeleteCalls[2].c.ids) = 1

\* C10: in bulk mode the k-th delete request carries the k-th slice of the deletion
\* list whatever the outcome of the requests before it, the count of failed batches
\* is the number of requests that failed, and when the run is done every batch has
\* been requested once and the last line reports that count.
C10_FailedBatchesAreCountedAndPassed ==
    (~CONFIRM /\ pc \in {"bulk_delete", "done"}) =>
        /\ failed_batches = Cardinality({k \in 1..Len(DeleteCalls) : ~DeleteCalls[k].c.ok})
        /\ \A k \in 1..Len(DeleteCalls) :
            /\ (k - 1) * DELETE_BATCH_SIZE < Len(ids_to_delete)
            /\ \A j \in 1..Len(DeleteCalls[k].c.ids) :
                DeleteCalls[k].c.ids[j] = ids_to_delete[(k - 1) * DELETE_BATCH_SIZE + j]
        /\ pc = "done" =>
            /\ Len(DeleteCalls) = CeilDiv(Len(ids_to_delete), DELETE_BATCH_SIZE)
            /\ out[Len(out)] = IF failed_batches = 0
                               THEN Line("deletion_complete", 0, Len(ids_to_delete))
                               ELSE Line("deletion_failed", 0, failed_batches)

\* a finished bulk run of three batches: the first and the last failed, the second
\* went through
C10_Witness ==
    /\ ~CONFIRM
    /\ pc = "done"
    /\ Len(DeleteCalls) = 3
    /\ ~DeleteCalls[1].c.ok
    /\ DeleteCalls[2].c.ok
    /\ ~DeleteCalls[3].c.ok
    /\ failed_batches = 2

(***************************************************************************)
(* Properties of the selector.                                             *)
(***************************************************************************)
\* group g of the response went through the loop
WentThrough(g) == g \in 1..Len(duplicates) /\ g <= i

\* the year of the capture date of an asset; DatetimeMax when it has none that parses
CaptureYear(a) == get_asset_info(a)[1].y

\* the positions of the assets of a group with the earliest capture date
Oldest(assets) ==
    {k \in 1..Len(assets) : \A j \in 1..Len(assets) : CaptureYear(assets[k]) <= CaptureYear(assets[j])}

\* the reasons printed for group g
ReasonsOf(g) == {out[k].reason : k \in LinesOf("info", g)}

\* select_best_asset returns the asset at position k of group g with this reason, and
\* the report of the group says so
Keeps(g, k, reason) ==
    /\ select_best_asset(duplicates[g]) = Selected(k, reason)
    /\ ReasonsOf(g) = {reason}
    /\ KeptIds(g) \subseteq {duplicates[g][k].id}

\* C11: for every group in which exactly one asset has the minimum capture date, the
\* selector keeps that asset and reports the reason "older".
C11_UniqueOldestIsKept ==
    \A g \in 1..Len(duplicates) :
        (WentThrough(g) /\ Cardinality(Oldest(duplicates[g])) = 1) =>
            \A k \in Oldest(duplicates[g]) : Keeps(g, k, "older")

\* every asset of the group has the same capture date
TiedOnDate(assets) ==
    \A j, k \in 1..Len(assets) : get_asset_info(assets[j])[1] = get_asset_info(assets[k])[1]

\* the positions of the assets of a group whose file is in the native format
Native(assets) ==
    {k \in 1..Len(assets) :
        endswith(lower(assets[k].originalFileName), <<".", "h", "e", "i", "c">>)}

\* some assets of the group are in the native format and some are not
DifferInFormat(assets) == Native(assets) \notin {{}, 1..Len(assets)}

\* C12 as stated: for all groups tied on date but differing in native-format flag, the
\* kept asset is a native-format one and the reason reported is "heic extension".
C12_NativeFormatWinsWithItsReason ==
    \A g \in 1..Len(duplicates) :
        (WentThrough(g) /\ TiedOnDate(duplicates[g]) /\ DifferInFormat(duplicates[g])) =>
            /\ KeptIds(g) \subseteq {duplicates[g][k].id : k \in Native(duplicates[g])}
            /\ ReasonsOf(g) \subseteq {"heic extension"}

\* C12, amended: for all groups tied on date in which exactly one asset is in the
\* native format and at least one is not, the selector keeps that asset and reports
\* the reason "heic extension".
C12_OnlyNativeFormatAssetIsKept ==
    \A g \in 1..Len(duplicates) :
        (WentThrough(g) /\ TiedOnDate(duplicates[g]) /\ DifferInFormat(duplicates[g])
           /\ Cardinality(Native(duplicates[g])) = 1) =>
            \A k \in Native(duplicates[g]) : Keeps(g, k, "heic extension")

\* a group of three assets of the same date was reported: the only one in the native
\* format is the last of the group and was kept
C12_Witness ==
    /\ Len(duplicates) = 1
    /\ Len(duplicates[1]) = 3
    /\ TiedOnDate(duplicates[1])
    /\ Native(duplicates[1]) = {3}
    /\ KeptIds(1) = {duplicates[1][3].id}
    /\ ReasonsOf(1) = {"heic extension"}
    /\ Resolved(1)

\* the descriptor of the asset at position k of a group
InfoAt(assets, k) == get_asset_info(assets[k])

\* the size a filter compares: an absent size counts as the lowest
SizeOf(assets, k) == IF IsNone(InfoAt(assets, k)[3]) THEN -1 ELSE InfoAt(assets, k)[3].v

\* asset j beats asset k on criterion c: an earlier date, the native format, a larger
\* size, more fields
Beats(assets, j, k, c) ==
    CASE c = 1 -> InfoAt(assets, j)[1].y < InfoAt(assets, k)[1].y
      [] c = 2 -> j \in Native(assets) /\ k \notin Native(assets)
      [] c = 3 -> SizeOf(assets, j) > SizeOf(assets, k)
      [] c = 4 -> InfoAt(assets, j)[4] > InfoAt(assets, k)[4]

RECURSIVE After(_, _)
\* the positions of the candidates of a group after the filters 1..c
After(assets, c) ==
    IF c = 0 THEN 1..Len(assets)
    ELSE LET among == After(assets, c - 1)
         IN  {k \in among : \A j \in among : ~Beats(assets, j, k, c)}

\* the filters that strictly reduced the candidates of a group
Reducing(assets) == {c \in 1..4 : After(assets, c) # After(assets, c - 1)}

\* the reason of the last filter that reduced the candidates; the reason of identical
\* files when none did
LastReason(assets) ==
    IF Reducing(assets) = {} THEN "identical files with the criteria (date, heic, size, exif)"
    ELSE LET c == CHOOSE c \in Reducing(assets) : \A d \in Reducing(assets) : d <= c
         IN  CASE c = 1 -> "older"
               [] c = 2 -> "heic extension"
               [] c = 3 -> "larger size"
               [] c = 4 -> "more exif data"

\* the least position of a nonempty set of positions
First(S) == CHOOSE k \in S : \A j \in S : k <= j

\* the four filters can be evaluated on the group: its dates are all aware or all
\* naive, and the candidates that reach the filter on sizes all have one
Evaluable(assets) ==
    /\ \A j, k \in 1..Len(assets) : InfoAt(assets, j)[1].aware = InfoAt(assets, k)[1].aware
    /\ \A k \in After(assets, 2) : ~IsNone(InfoAt(assets, k)[3])

LikeTheExample(assets) ==
    /\ Len(assets) = 3
    /\ InfoAt(assets, 1)[1] = InfoAt(assets, 2)[1]
    /\ InfoAt(assets, 2)[1].y < InfoAt(assets, 3)[1].y
    /\ InfoAt(assets, 2)[1].aware = InfoAt(assets, 3)[1].aware
    /\ Native(assets) = {2, 3}

\* C14: for a group of at least two assets, the reason the selector returns is that of
\* the last filter of the cascade that strictly reduced the candidates, not that of the
\* last filter evaluated; for A (2020, jpg), B (2020, heic), C (2021, heic) the kept
\* asset is B with the reason of the format.
C14_ReasonOfLastReducingFilter ==
    \A g \in 1..Len(duplicates) :
        (WentThrough(g) /\ Len(duplicates[g]) >= 2) =>
            /\ (select_best_asset(duplicates[g]).ok /\ Reducing(duplicates[g]) # {}) =>
                /\ select_best_asset(duplicates[g]).reason = LastReason(duplicates[g])
                /\ ReasonsOf(g) = {LastReason(duplicates[g])}
            /\ LikeTheExample(duplicates[g]) => Keeps(g, 2, "heic extension")

\* a group of three assets of one date was reported: the filter on the format reduced
\* it to its last two assets, the filters on size and fields were evaluated and
\* reduced nothing, and the second asset was kept with the reason of the format
C14_Witness ==
    /\ Len(duplicates) = 1
    /\ Len(duplicates[1]) = 3
    /\ Resolved(1)
    /\ Reducing(duplicates[1]) = {2}
    /\ After(duplicates[1], 4) = {2, 3}
    /\ KeptIds(1) = {duplicates[1][2].id}
    /\ ReasonsOf(1) = {"heic extension"}

\* every criterion ties across the assets of the group: the same date, format, size
\* (absent sizes tie with each other) and number of fields
AllTied(assets) ==
    \A j, k \in 1..Len(assets) :
        /\ InfoAt(assets, j)[1] = InfoAt(assets, k)[1]
        /\ (j \in Native(assets)) = (k \in Native(assets))
        /\ SizeOf(assets, j) = SizeOf(assets, k)
        /\ InfoAt(assets, j)[4] = InfoAt(assets, k)[4]

\* C15: given a group of two or more assets where every criterion ties across all
\* assets, the selector keeps the first asset in input order with the reason of
\* identical files ("all criteria tied").
C15_AllTiedKeepsFirst ==
    \A g \in 1..Len(duplicates) :
        (WentThrough(g) /\ Len(duplicates[g]) >= 2 /\ AllTied(duplicates[g])) =>
            Keeps(g, 1, "identical files with the criteria (date, heic, size, exif)")

\* the positions of the assets of a group whose capture date is absent or does not
\* parse, and of those whose capture date is valid
Undated(assets) ==
    {k \in 1..Len(assets) :
        LET dto == assets[k].exifInfo["dateTimeOriginal"]
        IN  ~(IsStr(dto) /\ IsIsoFormat(dto.v))}

Dated(assets) == (1..Len(assets)) \ Undated(assets)

\* the comparison of the dates of a group (min() at line 119) raises
DateComparisonFails(assets) ==
    StepRaises(Infos(assets), [k \in 1..Len(assets) |-> k], 1)

\* C16: an asset whose capture date is absent or unparsable is never kept in a group
\* that contains at least one asset with a valid capture date: the sentinel compares
\* as later than every valid date and the comparison itself never fails.
C16_UndatedNeverKept ==
    \A g \in 1..Len(duplicates) :
        (WentThrough(g) /\ Dated(duplicates[g]) # {} /\ Undated(duplicates[g]) # {}) =>
            /\ ~DateComparisonFails(duplicates[g])
            /\ \A k \in Undated(duplicates[g]) :
                /\ get_asset_info(duplicates[g][k])[1].y = DatetimeMax
                /\ \A j \in Dated(duplicates[g]) :
                    get_asset_info(duplicates[g][j])[1].y < DatetimeMax
                /\ duplicates[g][k].id \notin KeptIds(g)
                /\ select_best_asset(duplicates[g]).ok =>
                    select_best_asset(duplicates[g]).kept # k

\* the positions of the assets of a group whose size is absent
Unsized(assets) == {k \in 1..Len(assets) : IsNone(assets[k].exifInfo["fileSizeInByte"])}

\* C17: an asset whose size is absent does not make the run fail: in the step of the
\* selector on sizes it counts as the lowest possible size, and resolving and reporting
\* a group that contains such an asset completes normally.
C17_AbsentSizeDoesNotFail ==
    \A g \in 1..Len(duplicates) :
        (WentThrough(g) /\ Unsized(duplicates[g]) # {}
           /\ ~DateComparisonFails(duplicates[g])) =>
            /\ select_best_asset(duplicates[g]).ok
            /\ select_best_asset(duplicates[g]).kept = First(After(duplicates[g], 4))
            /\ Resolved(g)
            /\ LinesOf("traceback", g) = {}
            /\ pc # "crashed"

\* C18: a group with fewer than two assets is rejected rather than resolved: the
\* selector does not return a kept asset for it, nothing is reported as kept, and no
\* call that reconciles metadata or deletes is issued on its behalf.
C18_SmallGroupsAreRejected ==
    \A g \in 1..Len(duplicates) :
        (WentThrough(g) /\ Len(duplicates[g]) < 2) =>
            /\ ~select_best_asset(duplicates[g]).ok
            /\ KeptIds(g) = {}
            /\ \A k \in 1..Len(processed_groups) : processed_groups[k].g # g
            /\ \A k \in 1..Len(calls) : calls[k].g # g

\* the reasons and the kept ids the runs printed for group g, one per run, in order
ReasonsInOrder(g) ==
    LET Test(line) == line.kind = "info" /\ line.g = g
        lines == SelectSeq(out, Test)
    IN  [k \in 1..Len(lines) |-> lines[k].reason]

KeptInOrder(g) ==
    LET Test(line) == line.kind = "kept" /\ line.g = g
        lines == SelectSeq(out, Test)
    IN  [k \in 1..Len(lines) |-> lines[k].n]

IsStrip(e) ==
    \/ e.c.op \in {"album_remove", "tag_remove"}
    \/ e.c.op = "get_albums" /\ e.c.ids = <<KeptOf(e.g).id>>

\* a call of the transfer of group g: the albums of a discarded asset are fetched, the
\* kept asset joins an album, receives tags or fields
IsTransfer(e) ==
    \/ e.c.op \in {"album_add", "tag_apply", "field_update"}
    \/ e.c.op = "get_albums" /\ e.c.ids # <<KeptOf(e.g).id>>

\* the transferable fields the kept asset of group g lacks in the response and one of
\* its discarded assets holds
MissingFields(g) ==
    {key \in SeqRange(TransferKeys) :
        ~HasValue(KeptOf(g).exifInfo[key]) /\ Suppliers(g, key) # <<>>}

\* C20: for every group where strip and transfer are both enabled, all strip calls of
\* the group are issued before any transfer call of the group, and the tags and fields
\* the transfer adds are decided from the kept asset as the response showed it before
\* any mutation: a tag the strip removed from it is not applied again.
C20_StripPrecedesTransfer ==
    (~KEEP_METADATA /\ TRANSFER_METADATA) =>
        /\ \A j, k \in 1..Len(calls) :
            (calls[j].g = calls[k].g /\ IsStrip(calls[j]) /\ IsTransfer(calls[k])) => j < k
        /\ \A k \in 1..Len(calls) :
            /\ calls[k].c.op = "tag_apply" =>
                SeqRange(calls[k].c.tagIds) = MissingTags(calls[k].g)
            /\ calls[k].c.op = "field_update" =>
                DOMAIN calls[k].c.fields = MissingFields(calls[k].g)

\* a finished run without confirmation that stripped and transferred: the kept asset
\* of group 1 lost an album and a tag that a discarded asset of the group carries too,
\* then joined the album again, and the tag was not applied again
C20_Witness ==
    /\ ~KEEP_METADATA
    /\ TRANSFER_METADATA
    /\ ~CONFIRM
    /\ pc = "done"
    /\ Len(CallsTo("tag_remove", 1)) = 1
    /\ Len(CallsTo("album_remove", 1)) = 1
    /\ CallsTo("album_add", 1) # <<>>
    /\ CallsTo("tag_remove", 1)[1].c.ref \in TagIdsOf(DiscardedOf(1)[1])
    /\ CallsTo("tag_apply", 1) = <<>>

(***************************************************************************)
(* Properties of the order of the calls.                                   *)
(***************************************************************************)
\* the positions in the log of the delete requests, and of the calls of the strip
\* and the transfer
DeletePositions == {k \in 1..Len(calls) : calls[k].c.op = "delete"}

ReconcilePositions == {k \in 1..Len(calls) : calls[k].c.op # "delete"}

\* C21: without confirmation, no call is issued until every group went through the
\* loop and the plan is complete, no delete request is issued until the metadata of
\* every planned group was reconciled, and the delete requests come strictly after all
\* the strip and transfer calls of the run.
C21_BulkPlansThenReconcilesThenDeletes ==
    ~CONFIRM =>
        /\ calls # <<>> =>
            /\ pc \in {"bulk_metadata", "bulk_delete", "done", "crashed"}
            /\ i = Len(duplicates)
            /\ \A k \in 1..Len(calls) :
                calls[k].c.op \in MutatingOps =>
                    \E p \in 1..Len(processed_groups) : processed_groups[p].g = calls[k].g
        /\ DeletePositions # {} =>
            /\ pc \in {"bulk_delete", "done"}
            /\ idx = Len(processed_groups)
        /\ \A j \in ReconcilePositions : \A k \in DeletePositions : j < k

\* a finished run without confirmation over two groups: both were planned, calls that
\* change albums or tags were issued for each, and then the plan was deleted
C21_Witness ==
    /\ ~CONFIRM
    /\ pc = "done"
    /\ Len(processed_groups) = 2
    /\ \A g \in 1..2 : \E k \in ReconcilePositions :
        calls[k].g = g /\ calls[k].c.op \in MutatingOps
    /\ DeletePositions # {}
    /\ \E k \in DeletePositions : calls[k].c.ok

\* the operator approved group g: a reply other than n was recorded for it
Approved(g) == \E k \in 1..Len(replies) : replies[k].g = g /\ replies[k].reply # <<"n">>

\* the positions in the log of the calls issued for group g
CallsFor(g) == {k \in 1..Len(calls) : calls[k].g = g}

\* C22: in confirm mode outside a dry run, the calls of each approved group are its
\* reconciliation calls followed by exactly one delete request that carries exactly
\* the discarded ids of the group, all issued before the next group is examined; a
\* failed delete request does not stop the loop.
C22_ConfirmHandlesGroupsOneByOne ==
    (CONFIRM /\ ~DRY_RUN) =>
        /\ \A j, k \in 1..Len(calls) : j < k => calls[j].g <= calls[k].g
        /\ \A k \in 1..Len(calls) : calls[k].g \in 1..i /\ Approved(calls[k].g)
        /\ \A g \in 1..Len(duplicates) :
            (g <= i /\ Approved(g)) =>
                /\ Len(CallsTo("delete", g)) = 1
                /\ CallsTo("delete", g)[1].c.ids = DiscardedIds(g)
                /\ \A k \in CallsFor(g) :
                    calls[k].c.op = "delete" => \A j \in CallsFor(g) : j <= k
                /\ (i = g /\ g < Len(duplicates)) => pc = "loop"

\* a call without the answer of the server
Request(c) == [op |-> c.op, ref |-> c.ref, ids |-> c.ids, tagIds |-> c.tagIds,
               fields |-> c.fields, force |-> c.force]

\* the requests of the strip and the transfer issued for group g, in order
ReconcileRequests(g) ==
    LET Test(e) == e.g = g /\ e.c.op # "delete"
        cs == SelectSeq(calls, Test)
    IN  [k \in 1..Len(cs) |-> Request(cs[k].c)]

\* the requests the strip and the transfer of group g issue when every call succeeds
ExpectedRequests(g) ==
    LET cs == Reconcile(KeptOf(g), DiscardedOf(g), {})
    IN  [k \in 1..Len(cs) |-> Request(cs[k])]

\* the strip and the transfer of group g were run: in confirm mode the group was
\* approved, without confirmation the metadata loop has passed it
Reconciled(g) ==
    /\ ~DRY_RUN
    /\ IF CONFIRM THEN g <= i /\ Approved(g)
       ELSE \E p \in 1..Len(processed_groups) : processed_groups[p].g = g /\ p <= idx

\* every fetch of albums issued for group g succeeded
FetchesSucceeded(g) ==
    \A k \in CallsFor(g) : calls[k].c.op = "get_albums" => calls[k].c.ok

\* the run went on to its deletions: in confirm mode the delete request of group g was
\* issued; without confirmation the run, once over, sent every batch of the plan
DeletionFollowed(g) ==
    IF CONFIRM THEN Len(CallsTo("delete", g)) = 1
    ELSE /\ pc # "crashed"
         /\ pc = "done" => Len(DeleteCalls) = CeilDiv(Len(ids_to_delete), DELETE_BATCH_SIZE)

\* C23: a failed album addition, album removal, tag removal, tag application or field
\* update never aborts anything and is not retried: the requests issued for the group
\* are those issued when every call succeeds, each once, the run does not end on the
\* failure, and the deletion follows.
C23_MutationFailureNeverAborts ==
    \A g \in 1..Len(duplicates) :
        (Reconciled(g) /\ FetchesSucceeded(g)) =>
            /\ ReconcileRequests(g) = ExpectedRequests(g)
            /\ LinesOf("transfer_traceback", g) = {}
            /\ DeletionFollowed(g)

\* C24: the strip issues calls only when KEEP_METADATA is false, which an unset
\* variable leaves true, and the transfer only when TRANSFER_METADATA is true: with
\* the strip disabled no call of the strip (fetch of the kept asset's albums, album
\* removal, tag removal) is ever issued, and with the transfer disabled no call of the
\* transfer (fetch of a discarded asset's albums, album addition, tag application,
\* field update).
C24_FlagsGateStripAndTransfer ==
    /\ KEEP_METADATA_from(None)
    /\ KEEP_METADATA => \A k \in 1..Len(calls) : ~IsStrip(calls[k])
    /\ ~TRANSFER_METADATA => \A k \in 1..Len(calls) : ~IsTransfer(calls[k])
    /\ \A k \in 1..Len(calls) :
        \/ calls[k].c.op = "delete"
        \/ IsStrip(calls[k]) /\ ~KEEP_METADATA
        \/ IsTransfer(calls[k]) /\ TRANSFER_METADATA

\* a finished run with both the strip and the transfer disabled over a group whose
\* kept asset is in an album and carries a tag, as does the asset it discarded: the
\* delete request is the only call
C24_Witness ==
    /\ KEEP_METADATA
    /\ ~TRANSFER_METADATA
    /\ ~DRY_RUN
    /\ pc = "done"
    /\ Len(duplicates) = 1
    /\ Resolved(1)
    /\ KeptOf(1).albums # <<>>
    /\ KeptOf(1).tags # <<>>
    /\ Len(DiscardedOf(1)) >= 1
    /\ DiscardedOf(1)[1].albums # <<>>
    /\ Len(calls) = 1
    /\ calls[1].c.op = "delete"
    /\ calls[1].c.ok

\* the positions in the log of the album additions, tag applications and field updates
\* issued for group g
TransferMutations(g) ==
    {k \in CallsFor(g) : calls[k].c.op \in {"album_add", "tag_apply", "field_update"}}

\* the ids sent in the delete requests issued so far
SentForDeletion == UNION {SeqRange(DeleteCalls[k].c.ids) : k \in 1..Len(DeleteCalls)}

\* C25: outside a dry run, in confirm and in bulk mode, the discarded ids of a group are
\* sent for deletion even when every album addition, tag application and field update
\* issued for the group failed.
C25_DeletionFollowsFailedTransfer ==
    \A g \in 1..Len(duplicates) :
        (Reconciled(g) /\ TransferMutations(g) # {}
           /\ \A k \in TransferMutations(g) : ~calls[k].c.ok) =>
            /\ DeletionFollowed(g)
            /\ CONFIRM => CallsTo("delete", g)[1].c.ids = DiscardedIds(g)
            /\ (~CONFIRM /\ pc = "done") => SeqRange(DiscardedIds(g)) \subseteq SentForDeletion

\* the number of times this id is sent for deletion, over all the delete requests
TimesSent(id) ==
    Cardinality({<<k, j>> \in (1..Len(DeleteCalls)) \X (1..MaxGroups * MaxAssets) :
                    j <= Len(DeleteCalls[k].c.ids) /\ DeleteCalls[k].c.ids[j] = id})

\* the groups of the response share no asset
PairwiseDisjoint ==
    \A g, h \in 1..Len(duplicates) : g # h => GroupIds(g) \cap GroupIds(h) = {}

\* C26: across a run whose groups are pairwise disjoint, every asset id appears in at
\* most one delete request, once; in confirm mode the deletion list of the run stays
\* empty and every delete request is that of one group: no batch is ever sent.
C26_EachIdDeletedAtMostOnce ==
    PairwiseDisjoint =>
        /\ \A g \in 1..Len(duplicates) : \A id \in GroupIds(g) : TimesSent(id) <= 1
        /\ CONFIRM =>
            /\ ids_to_delete = <<>>
            /\ processed_groups = <<>>
            /\ \A k \in 1..Len(DeleteCalls) : DeleteCalls[k].g >= 1
            /\ pc \notin {"bulk_metadata", "bulk_delete"}
            /\ \A k \in 1..Len(out) :
                out[k].kind \notin {"deleting", "batch_deleted", "batch_failed"}
        /\ ~CONFIRM => \A k \in 1..Len(DeleteCalls) : DeleteCalls[k].g = 0

\* a finished run in confirm mode over two approved groups, each deleted by its own
\* request: the deletion list is empty and the two requests share no id
C26_Witness ==
    /\ CONFIRM
    /\ ~DRY_RUN
    /\ pc = "done"
    /\ Len(duplicates) = 2
    /\ Len(DeleteCalls) = 2
    /\ \A k \in 1..2 : DeleteCalls[k].c.ok /\ DeleteCalls[k].c.ids = DiscardedIds(k)
    /\ Len(DiscardedIds(1)) = 2
    /\ DiscardedIds(2) # <<>>
    /\ ids_to_delete = <<>>


(***************************************************************************)
(* The reply to the prompt.                                                *)
(***************************************************************************)
\* the answers that decline a group: n alone, in either case, whatever the blanks
\* around it
DecliningAnswers == {<<"n">>, <<" ", "N", " ">>}

\* nothing was done for group g beyond its report
LeftAlone(g) ==
    /\ CallsFor(g) = {}
    /\ LinesOf("would_process", g) = {}
    /\ LinesOf("group_success", g) = {}
    /\ LinesOf("group_error", g) = {}

\* group g was carried out: announced in a dry run, otherwise reconciled and sent
\* for deletion by one request
CarriedOut(g) ==
    IF DRY_RUN THEN LinesOf("would_process", g) # {} /\ CallsFor(g) = {}
    ELSE /\ Len(CallsTo("delete", g)) = 1
         /\ CallsTo("delete", g)[1].c.ids = DiscardedIds(g)
         /\ FetchesSucceeded(g) => ReconcileRequests(g) = ExpectedRequests(g)

\* C27: in confirm mode a group is declined only when its answer, trimmed and
\* lower-cased, is n: such a group is left alone, and a group with any other answer,
\* the empty one and the word no included, is carried out: announced in a dry run,
\* otherwise reconciled and sent for deletion.
C27_OnlyNDeclines ==
    \A k \in 1..Len(replies) :
        /\ CONFIRM
        /\ replies[k].g \in 1..i
        /\ IF replies[k].answer \in DecliningAnswers
           THEN LeftAlone(replies[k].g)
           ELSE CarriedOut(replies[k].g)

(***************************************************************************)
(* A tag the kept asset shares with a discarded one.                       *)
(***************************************************************************)
\* the tags carried by the kept asset of group g and by one of its discarded assets
SharedTags(g) ==
    {t \in SeqRange(KeptOf(g).tags) :
        t # "" /\ \E a \in SeqRange(DiscardedOf(g)) : t \in SeqRange(a.tags)}

\* the positions of the requests that remove tag t from the kept asset of group g
TagRemovals(g, t) ==
    {k \in CallsFor(g) : /\ calls[k].c.op = "tag_remove"
                         /\ calls[k].c.ref = t
                         /\ calls[k].c.ids = <<KeptOf(g).id>>}

\* the tags the tag-apply requests of group g name
TagsApplied(g) ==
    UNION {SeqRange(calls[k].c.tagIds) : k \in {j \in CallsFor(g) : calls[j].c.op = "tag_apply"}}

\* the tags on the kept asset of group g once the requests issued so far are served:
\* those it had less those removed, plus those applied afterwards
TagsOnKeptAfter(g) ==
    (SeqRange(KeptOf(g).tags)
        \ {t \in SeqRange(KeptOf(g).tags) : \E k \in TagRemovals(g, t) : calls[k].c.ok})
    \cup UNION {SeqRange(calls[k].c.tagIds) :
                    k \in {j \in CallsFor(g) : calls[j].c.op = "tag_apply" /\ calls[j].c.ok}}

\* the ids the server was asked to delete by a request it served
DeletedIds ==
    UNION {SeqRange(DeleteCalls[k].c.ids) : k \in {j \in 1..Len(DeleteCalls) : DeleteCalls[j].c.ok}}

\* the discarded assets of group g are deleted
DiscardedDeleted(g) == SeqRange(DiscardedIds(g)) \subseteq DeletedIds

\* C28: with strip and transfer both enabled, a tag carried by the kept asset and by
\* a discarded asset of a reconciled group is removed from the kept asset by the strip
\* and is not named by the tag-apply request of the transfer, so that once the
\* discarded assets are deleted no asset of the group carries it.
C28_SharedTagIsLost ==
    \A g \in 1..Len(duplicates) :
        (Reconciled(g) /\ ~KEEP_METADATA /\ TRANSFER_METADATA) =>
            \A t \in SharedTags(g) :
                /\ TagRemovals(g, t) # {}
                /\ t \notin TagsApplied(g)
                /\ (DiscardedDeleted(g) /\ \A k \in TagRemovals(g, t) : calls[k].c.ok)
                        => t \notin TagsOnKeptAfter(g)
====
